---- MODULE Spec2Model ----
(***************************************************************************)
(* Model of the two scripts of the repository:                             *)
(*   src/openai_agent.py                                                   *)
(*   src/projects/reasoning/bioagents/agents/openai_agent.py               *)
(* Each script is a straight-line Python module: load_dotenv(), read       *)
(* API_KEY from the environment, construct the client, issue one           *)
(* chat.completions.create call, print the first choice's message content. *)
(* The two scripts run side by side, each in a process of its own.         *)
(* The client library and the remote service are outside the repository:   *)
(* whether the constructor and the call return or raise, and what the      *)
(* call returns, are inputs the model chooses freely.                      *)
(***************************************************************************)
EXTENDS Integers, Sequences, FiniteSets

(* ---- bounds ---- *)
\* longest choices list a response carries
MaxChoices == 2
\* longest message content, in characters
MaxLen == 1

(* ---- Python values ---- *)
PyNone == [type |-> "NoneType", value |-> <<>>]
PyStr(s) == [type |-> "str", value |-> s]

\* variant: None rendered as the empty text
StrNoneEmpty(v) == IF v.type = "NoneType" THEN <<>> ELSE v.value

\* str(v), as print() applies it to its argument
Str(v) == IF v.type = "NoneType" THEN <<"N", "o", "n", "e">> ELSE v.value

SeqsUpTo(S, n) == UNION {[1..k -> S] : k \in 0..n}

(* ---- the two scripts and their literals ---- *)
Scripts == {"openai_agent", "bioagents"}

Prompt(f) ==
    IF f = "openai_agent" THEN "What is the capital of France?"
    ELSE "Write me a one paragraph essay on World War II."

Model(f) == "gpt-4.1-mini"

\* variant: a system message precedes the user message
CreateArgsWithSystem(f) ==
    [model |-> Model(f),
     messages |-> << [role |-> "system", content |-> "You are a helpful assistant."],
                     [role |-> "user", content |-> Prompt(f)] >>]

\* the keyword arguments of client.chat.completions.create(...)
CreateArgs(f) ==
    [model |-> Model(f),
     messages |-> << [role |-> "user", content |-> Prompt(f)] >>]

(* ---- inputs ---- *)
Chars == {"P"}
Keys == {<<"A">>, <<"B">>}
EnvValues == {PyNone} \cup {PyStr(k) : k \in Keys}
Contents == {PyNone} \cup {PyStr(s) : s \in SeqsUpTo(Chars, MaxLen)}
Choice(c) == [message |-> [content |-> c]]
Responses == {[choices |-> cs] : cs \in SeqsUpTo({Choice(c) : c \in Contents}, MaxChoices)}

VARIABLES
    pc,          \* the statement each script is at
    environ,     \* os.environ.get("API_KEY") of each process
    dotenv,      \* the API_KEY entry of the .env file each script finds
    API_KEY,     \* module global API_KEY: <<>> while unbound, <<v>> once bound
    client,      \* module global client
    completion,  \* module global completion
    ctorArgs,    \* the api_key arguments OpenAI(...) was invoked with
    requests,    \* the requests each process has sent to the service
    stdout,      \* the characters written to standard output
    exitStatus,  \* <<>> while running, <<n>> once the process has exited
    failedAt,    \* the statement whose exception ended the process
    invoked,     \* the steps begun, in order
    steps        \* the steps completed without an exception, in order

vars == <<pc, environ, dotenv, API_KEY, client, completion, ctorArgs, requests,
          stdout, exitStatus, failedAt, invoked, steps>>

Init ==
    /\ pc = [f \in Scripts |-> "load"]
    /\ environ \in [Scripts -> EnvValues]
    /\ dotenv \in [Scripts -> EnvValues]
    /\ API_KEY = [f \in Scripts |-> <<>>]
    /\ client = [f \in Scripts |-> <<>>]
    /\ completion = [f \in Scripts |-> <<>>]
    /\ ctorArgs = [f \in Scripts |-> <<>>]
    /\ requests = [f \in Scripts |-> <<>>]
    /\ stdout = [f \in Scripts |-> <<>>]
    /\ exitStatus = [f \in Scripts |-> <<>>]
    /\ failedAt = [f \in Scripts |-> "none"]
    /\ invoked = [f \in Scripts |-> <<>>]
    /\ steps = [f \in Scripts |-> <<>>]

\* an exception nothing catches: traceback to stderr, exit status 1
Uncaught(f, at) ==
    /\ pc' = [pc EXCEPT ![f] = "failed"]
    /\ exitStatus' = [exitStatus EXCEPT ![f] = <<1>>]
    /\ failedAt' = [failedAt EXCEPT ![f] = at]

\* load_dotenv(): copies the file's entry into the environment unless the
\* variable is already set (override defaults to False)
LoadDotenv(f) ==
    /\ pc[f] = "load"
    /\ environ' = [environ EXCEPT ![f] =
                      IF environ[f] = PyNone THEN dotenv[f] ELSE environ[f]]
    /\ pc' = [pc EXCEPT ![f] = "getenv"]
    /\ invoked' = [invoked EXCEPT ![f] = Append(@, "load")]
    /\ steps' = [steps EXCEPT ![f] = Append(@, "load")]
    /\ UNCHANGED <<dotenv, API_KEY, client, completion, ctorArgs, requests,
                   stdout, exitStatus, failedAt>>

\* variant: the script checks the key itself and raises when it is absent
GetEnvValidated(f) ==
    /\ pc[f] = "getenv"
    /\ invoked' = [invoked EXCEPT ![f] = Append(@, "getenv")]
    /\ IF environ[f] = PyNone
       THEN /\ Uncaught(f, "getenv")
            /\ UNCHANGED <<API_KEY, steps>>
       ELSE /\ API_KEY' = [API_KEY EXCEPT ![f] = <<environ[f]>>]
            /\ pc' = [pc EXCEPT ![f] = "construct"]
            /\ steps' = [steps EXCEPT ![f] = Append(@, "getenv")]
            /\ UNCHANGED <<exitStatus, failedAt>>
    /\ UNCHANGED <<environ, dotenv, client, completion, ctorArgs, requests,
                   stdout>>

\* API_KEY = os.getenv("API_KEY")
GetEnv(f) ==
    /\ pc[f] = "getenv"
    /\ API_KEY' = [API_KEY EXCEPT ![f] = <<environ[f]>>]
    /\ pc' = [pc EXCEPT ![f] = "construct"]
    /\ invoked' = [invoked EXCEPT ![f] = Append(@, "getenv")]
    /\ steps' = [steps EXCEPT ![f] = Append(@, "getenv")]
    /\ UNCHANGED <<environ, dotenv, client, completion, ctorArgs, requests,
                   stdout, exitStatus, failedAt>>

\* client = OpenAI(api_key=API_KEY): the constructor returns a client
ConstructOk(f) ==
    /\ pc[f] = "construct"
    /\ ctorArgs' = [ctorArgs EXCEPT ![f] = Append(@, API_KEY[f][1])]
    /\ client' = [client EXCEPT ![f] = <<[api_key |-> API_KEY[f][1]]>>]
    /\ pc' = [pc EXCEPT ![f] = "create"]
    /\ invoked' = [invoked EXCEPT ![f] = Append(@, "construct")]
    /\ steps' = [steps EXCEPT ![f] = Append(@, "construct")]
    /\ UNCHANGED <<environ, dotenv, API_KEY, completion, requests, stdout,
                   exitStatus, failedAt>>

\* variant: the constructor's exception is swallowed and the script goes on
ConstructRaiseSwallowed(f) ==
    /\ pc[f] = "construct"
    /\ ctorArgs' = [ctorArgs EXCEPT ![f] = Append(@, API_KEY[f][1])]
    /\ pc' = [pc EXCEPT ![f] = "create"]
    /\ invoked' = [invoked EXCEPT ![f] = Append(@, "construct")]
    /\ UNCHANGED <<environ, dotenv, API_KEY, client, completion, requests,
                   stdout, exitStatus, failedAt, steps>>

\* client = OpenAI(api_key=API_KEY): the constructor raises
ConstructRaise(f) ==
    /\ pc[f] = "construct"
    /\ ctorArgs' = [ctorArgs EXCEPT ![f] = Append(@, API_KEY[f][1])]
    /\ Uncaught(f, "construct")
    /\ invoked' = [invoked EXCEPT ![f] = Append(@, "construct")]
    /\ UNCHANGED <<environ, dotenv, API_KEY, client, completion, requests,
                   stdout, steps>>

\* client.chat.completions.create(...): the request goes out and the
\* process blocks on the answer
Create(f) ==
    /\ pc[f] = "create"
    /\ requests' = [requests EXCEPT ![f] = Append(@, CreateArgs(f))]
    /\ pc' = [pc EXCEPT ![f] = "wait"]
    /\ invoked' = [invoked EXCEPT ![f] = Append(@, "create")]
    /\ UNCHANGED <<environ, dotenv, API_KEY, client, completion, ctorArgs,
                   stdout, exitStatus, failedAt, steps>>

\* the call returns a response, bound to completion
CreateReturn(f) ==
    /\ pc[f] = "wait"
    /\ \E r \in Responses : completion' = [completion EXCEPT ![f] = <<r>>]
    /\ pc' = [pc EXCEPT ![f] = "print"]
    /\ steps' = [steps EXCEPT ![f] = Append(@, "create")]
    /\ UNCHANGED <<environ, dotenv, API_KEY, client, ctorArgs, requests,
                   stdout, exitStatus, failedAt, invoked>>

\* variant: the error text is printed before the exception propagates
CreateRaiseEchoes(f) ==
    /\ pc[f] = "wait"
    /\ Uncaught(f, "create")
    /\ stdout' = [stdout EXCEPT ![f] = @ \o <<"E", "\n">>]
    /\ UNCHANGED <<environ, dotenv, API_KEY, client, completion, ctorArgs,
                   requests, invoked, steps>>

\* variant: a failed call is issued again
CreateRaiseRetries(f) ==
    /\ pc[f] = "wait"
    /\ pc' = [pc EXCEPT ![f] = "create"]
    /\ failedAt' = [failedAt EXCEPT ![f] = "create"]
    /\ invoked' = [invoked EXCEPT ![f] = SubSeq(@, 1, Len(@) - 1)]
    /\ UNCHANGED <<environ, dotenv, API_KEY, client, completion, ctorArgs,
                   requests, stdout, exitStatus, steps>>

\* the call raises (network, authentication, rate limit, ...)
CreateRaise(f) ==
    /\ pc[f] = "wait"
    /\ Uncaught(f, "create")
    /\ UNCHANGED <<environ, dotenv, API_KEY, client, completion, ctorArgs,
                   requests, stdout, invoked, steps>>

\* variant: the last choice is printed instead of the first
PrintContentLast(f) ==
    /\ pc[f] = "print"
    /\ LET choices == completion[f][1].choices IN
        IF Len(choices) = 0
        THEN /\ Uncaught(f, "print")
             /\ UNCHANGED <<stdout, invoked, steps>>
        ELSE /\ stdout' = [stdout EXCEPT ![f] =
                              @ \o Str(choices[Len(choices)].message.content) \o <<"\n">>]
             /\ pc' = [pc EXCEPT ![f] = "done"]
             /\ exitStatus' = [exitStatus EXCEPT ![f] = <<0>>]
             /\ invoked' = [invoked EXCEPT ![f] = Append(@, "print")]
             /\ steps' = [steps EXCEPT ![f] = Append(@, "print")]
             /\ UNCHANGED failedAt
    /\ UNCHANGED <<environ, dotenv, API_KEY, client, completion, ctorArgs,
                   requests>>

\* variant: one of the two scripts prints without the trailing newline
PrintContentDiverges(f) ==
    /\ pc[f] = "print"
    /\ LET choices == completion[f][1].choices IN
        IF Len(choices) = 0
        THEN /\ Uncaught(f, "print")
             /\ UNCHANGED <<stdout, invoked, steps>>
        ELSE /\ stdout' = [stdout EXCEPT ![f] =
                              @ \o Str(choices[1].message.content)
                                \o (IF f = "bioagents" THEN <<>> ELSE <<"\n">>)]
             /\ pc' = [pc EXCEPT ![f] = "done"]
             /\ exitStatus' = [exitStatus EXCEPT ![f] = <<0>>]
             /\ invoked' = [invoked EXCEPT ![f] = Append(@, "print")]
             /\ steps' = [steps EXCEPT ![f] = Append(@, "print")]
             /\ UNCHANGED failedAt
    /\ UNCHANGED <<environ, dotenv, API_KEY, client, completion, ctorArgs,
                   requests>>

\* variant: an empty choices list is waited on instead of indexed
PrintContentPolls(f) ==
    /\ pc[f] = "print"
    /\ LET choices == completion[f][1].choices IN
        IF Len(choices) = 0
        THEN UNCHANGED <<pc, exitStatus, failedAt, stdout, invoked, steps>>
        ELSE /\ stdout' = [stdout EXCEPT ![f] =
                              @ \o Str(choices[1].message.content) \o <<"\n">>]
             /\ pc' = [pc EXCEPT ![f] = "done"]
             /\ exitStatus' = [exitStatus EXCEPT ![f] = <<0>>]
             /\ invoked' = [invoked EXCEPT ![f] = Append(@, "print")]
             /\ steps' = [steps EXCEPT ![f] = Append(@, "print")]
             /\ UNCHANGED failedAt
    /\ UNCHANGED <<environ, dotenv, API_KEY, client, completion, ctorArgs,
                   requests>>

\* print(completion.choices[0].message.content), then the end of the script
PrintContent(f) ==
    /\ pc[f] = "print"
    /\ LET choices == completion[f][1].choices IN
        IF Len(choices) = 0
        THEN /\ Uncaught(f, "print")
             /\ UNCHANGED <<stdout, invoked, steps>>
        ELSE /\ stdout' = [stdout EXCEPT ![f] =
                              @ \o Str(choices[1].message.content) \o <<"\n">>]
             /\ pc' = [pc EXCEPT ![f] = "done"]
             /\ exitStatus' = [exitStatus EXCEPT ![f] = <<0>>]
             /\ invoked' = [invoked EXCEPT ![f] = Append(@, "print")]
             /\ steps' = [steps EXCEPT ![f] = Append(@, "print")]
             /\ UNCHANGED failedAt
    /\ UNCHANGED <<environ, dotenv, API_KEY, client, completion, ctorArgs,
                   requests>>

Step(f) ==
    \/ LoadDotenv(f)
    \/ GetEnv(f)
    \/ ConstructOk(f)
    \/ ConstructRaise(f)
    \/ Create(f)
    \/ CreateReturn(f)
    \/ CreateRaise(f)
    \/ PrintContent(f)

Next == \E f \in Scripts : Step(f)

Spec == Init /\ [][Next]_vars

\* the interpreter keeps running each process, and the blocking call
\* eventually returns or raises
FairSpec == Spec /\ \A f \in Scripts : WF_vars(Step(f))

(* ---- vocabulary of the properties ---- *)
Terminated(f) == pc[f] \in {"done", "failed"}
Order == <<"load", "getenv", "construct", "create", "print">>
IsPrefix(s, t) == Len(s) <= Len(t) /\ \A i \in 1..Len(s) : s[i] = t[i]
Newline == <<"\n">>
HasFirst(f) == completion[f] # <<>> /\ Len(completion[f][1].choices) > 0
FirstContent(f) == completion[f][1].choices[1].message.content
KeyAbsent(f) == pc[f] # "load" /\ environ[f] = PyNone

(* C1: if API_KEY is absent when the script runs, the completion call is   *)
(* never reached and the process ends in failure.                          *)
C1_AbsentKeyNeverCalls ==
    \A f \in Scripts :
        KeyAbsent(f) =>
            /\ requests[f] = <<>>
            /\ pc[f] # "done"
            /\ Terminated(f) => exitStatus[f] = <<1>>

(* C2: when the call returns a response whose first choice's content is a  *)
(* string s, standard output is exactly s and one newline, and the exit    *)
(* status is 0; nothing is written before the print.                       *)
C2_PrintsContent ==
    \A f \in Scripts :
        (HasFirst(f) /\ FirstContent(f).type = "str") =>
            IF pc[f] = "print"
            THEN stdout[f] = <<>> /\ exitStatus[f] = <<>>
            ELSE /\ pc[f] = "done"
                 /\ stdout[f] = FirstContent(f).value \o Newline
                 /\ exitStatus[f] = <<0>>

C2_Witness ==
    \E f \in Scripts :
        /\ pc[f] = "done"
        /\ Len(completion[f][1].choices) = 2
        /\ FirstContent(f) = PyStr(<<"P">>)
        /\ completion[f][1].choices[2].message.content # FirstContent(f)
        /\ stdout[f] = <<"P", "\n">>

(* C3: if the completion call raises, the process ends with a non-zero     *)
(* status, standard output is empty and print was never executed.          *)
C3_CallFailureNoOutput ==
    \A f \in Scripts :
        failedAt[f] = "create" =>
            /\ Terminated(f)
            /\ exitStatus[f] # <<>> /\ exitStatus[f][1] # 0
            /\ stdout[f] = <<>>
            /\ \A i \in 1..Len(invoked[f]) : invoked[f][i] # "print"

C3_Witness ==
    \E f \in Scripts :
        /\ failedAt[f] = "create"
        /\ Len(requests[f]) = 1
        /\ exitStatus[f] = <<1>>

(* C4: every request a script sends carries exactly one message, of role   *)
(* "user" and the script's literal prompt, and the model "gpt-4.1-mini",   *)
(* whatever the environment and the key; a script past the call has sent   *)
(* such a request.                                                         *)
C4_RequestPayload ==
    /\ \A i \in 1..Len(requests["openai_agent"]) :
          requests["openai_agent"][i] =
              [model |-> "gpt-4.1-mini",
               messages |-> << [role |-> "user",
                                content |-> "What is the capital of France?"] >>]
    /\ \A i \in 1..Len(requests["bioagents"]) :
          requests["bioagents"][i] =
              [model |-> "gpt-4.1-mini",
               messages |-> << [role |-> "user",
                                content |-> "Write me a one paragraph essay on World War II."] >>]
    /\ \A f \in Scripts : pc[f] \in {"wait", "print", "done"} => requests[f] # <<>>

C4_Witness ==
    /\ requests["openai_agent"] # <<>>
    /\ requests["bioagents"] # <<>>
    /\ API_KEY["openai_agent"] # API_KEY["bioagents"]
    /\ API_KEY["openai_agent"] = <<PyNone>>

(* C5: a process issues at most one completion call, and exactly one when  *)
(* it reaches the print step; a failed call is not retried.                *)
C5_AtMostOneCall ==
    \A f \in Scripts :
        /\ Len(requests[f]) <= 1
        /\ pc[f] \in {"print", "done"} => Len(requests[f]) = 1
        /\ failedAt[f] \in {"create", "print"} => Len(requests[f]) = 1

C5_Witness ==
    \E f, g \in Scripts :
        /\ failedAt[f] = "create" /\ Len(requests[f]) = 1
        /\ pc[g] = "done" /\ Len(requests[g]) = 1

(* C6: the steps load, getenv, construct, create, print are begun in this  *)
(* order, each at most once, and a step is begun only when every earlier   *)
(* one has completed without an exception.                                 *)
C6_LinearSequence ==
    \A f \in Scripts :
        /\ IsPrefix(invoked[f], Order)
        /\ IsPrefix(steps[f], Order)
        /\ Len(steps[f]) <= Len(invoked[f])
        /\ Len(invoked[f]) <= Len(steps[f]) + 1
        /\ ctorArgs[f] # <<>> => API_KEY[f] # <<>>
        /\ requests[f] # <<>> => client[f] # <<>>
        /\ stdout[f] # <<>> => completion[f] # <<>>

C6_Witness ==
    \E f \in Scripts : pc[f] = "done" /\ steps[f] = Order /\ invoked[f] = Order

(* C7: the script validates nothing: with API_KEY absent it still calls    *)
(* the constructor, with None as api_key, and a failure comes from the     *)
(* constructor or later, never from a check before it.                     *)
C7_NoLocalValidation ==
    \A f \in Scripts :
        KeyAbsent(f) =>
            /\ pc[f] \notin {"getenv", "construct"} => ctorArgs[f] = <<PyNone>>
            /\ client[f] # <<>> => client[f][1].api_key = PyNone
            /\ pc[f] = "failed" => failedAt[f] \in {"construct", "create", "print"}

C7_Witness ==
    \E f \in Scripts :
        /\ KeyAbsent(f)
        /\ failedAt[f] = "construct"
        /\ ctorArgs[f] = <<PyNone>>

SameInputs(f, g) ==
    /\ API_KEY[f] = API_KEY[g]
    /\ (failedAt[f] = "construct") = (failedAt[g] = "construct")
    /\ (failedAt[f] = "create") = (failedAt[g] = "create")
    /\ completion[f] = completion[g]

SameButContent(r, q) ==
    /\ r.model = q.model
    /\ Len(r.messages) = Len(q.messages)
    /\ \A i \in 1..Len(r.messages) : r.messages[i].role = q.messages[i].role

(* C8: two runs with the same key, the same constructor outcome and the    *)
(* same completion outcome take the same steps, send requests that differ  *)
(* in the message content only, and end with the same output and status.   *)
C8_Duplicates ==
    \A f, g \in Scripts :
        (Terminated(f) /\ Terminated(g) /\ SameInputs(f, g)) =>
            /\ invoked[f] = invoked[g]
            /\ steps[f] = steps[g]
            /\ Len(requests[f]) = Len(requests[g])
            /\ \A i \in 1..Len(requests[f]) :
                  SameButContent(requests[f][i], requests[g][i])
            /\ stdout[f] = stdout[g]
            /\ exitStatus[f] = exitStatus[g]
            /\ failedAt[f] = failedAt[g]

C8_Witness ==
    /\ pc["openai_agent"] = "done"
    /\ pc["bioagents"] = "done"
    /\ SameInputs("openai_agent", "bioagents")
    /\ requests["openai_agent"] # requests["bioagents"]
    /\ stdout["openai_agent"] = <<"P", "\n">>

ExitedAfterPrint(f) ==
    /\ pc[f] = "done" /\ exitStatus[f] = <<0>> /\ stdout[f] # <<>>
    /\ failedAt[f] = "none"

ExitedOnFailure(f) ==
    /\ pc[f] = "failed" /\ exitStatus[f] = <<1>> /\ stdout[f] = <<>>
    /\ failedAt[f] # "none"

(* C9: every run terminates, and a terminated process has either printed   *)
(* its output and exited 0 or failed with a non-zero status and an empty   *)
(* standard output.                                                        *)
C9_Terminates ==
    /\ \A f \in Scripts : <>[]Terminated(f)
    /\ [](\A f \in Scripts :
            Terminated(f) => (ExitedAfterPrint(f) /\ ~ExitedOnFailure(f))
                             \/ (ExitedOnFailure(f) /\ ~ExitedAfterPrint(f)))

C9_Witness ==
    \E f, g \in Scripts : ExitedAfterPrint(f) /\ ExitedOnFailure(g)

(* C10: a returned response with no choices ends the process after the     *)
(* call with an uncaught error and nothing printed; a first choice whose   *)
(* content is None prints the text None and a newline, with status 0.      *)
C10_EmptyOrNoneContent ==
    \A f \in Scripts :
        (completion[f] # <<>> /\ pc[f] # "print") =>
            IF Len(completion[f][1].choices) = 0
            THEN /\ pc[f] = "failed" /\ failedAt[f] = "print"
                 /\ exitStatus[f] = <<1>>
                 /\ stdout[f] = <<>>
                 /\ Len(requests[f]) = 1
            ELSE FirstContent(f) = PyNone =>
                    /\ pc[f] = "done"
                    /\ stdout[f] = <<"N", "o", "n", "e", "\n">>
                    /\ exitStatus[f] = <<0>>

C10_Witness ==
    \E f, g \in Scripts :
        /\ completion[f] = <<[choices |-> <<>>]>> /\ pc[f] = "failed"
        /\ HasFirst(g) /\ FirstContent(g) = PyNone /\ pc[g] = "done"

====
